---- MODULE Spec2Model ----
(***************************************************************************)
(* Baggage-processing status service (src/app.py).                         *)
(*                                                                         *)
(* One asyncio event loop runs                                             *)
(*   - one runner coroutine simulate_baggage_processing(task_id) per job,  *)
(*   - one websocket_status handler per WebSocket,                         *)
(*   - the HTTP handlers start_processing and get_status.                  *)
(* Code between two awaits is one atomic step.  An await of send_text or   *)
(* accept is a point where the other coroutines may run; the outcome of a  *)
(* send (delivered or raised) is decided by the state of the channel when  *)
(* the await finishes.                                                     *)
(***************************************************************************)
EXTENDS Integers, Sequences, FiniteSets, TLC

\* Bounds of the model: the jobs submitted, the task ids that clients name
\* but no job ever has, the WebSockets opened.
NumJobs == 1
NumUnknownIds == 1
NumSockets == 2
\* Direct calls of manager.disconnect made in one run (ManagerSpec).
MaxDisconnectCalls == 1

\* uuid4 ids are interchangeable: the jobs get the ids 1..NumJobs.
JobIds == 1..NumJobs
TaskIds == 1..(NumJobs + NumUnknownIds)
\* WebSocket objects are interchangeable: they are numbered as they open.
Sockets == 1..NumSockets

\* Number of iterations of "for stage in range(4)".
NumLoopStages == 4

PROCESSING_STAGES ==
  << "Baggage Check-in",
     "Security Screening",
     "Baggage Sorting",
     "Loading onto Aircraft",
     "Processing Complete" >>

\* Broadcasts of the runner: the one before the loop, the one of each loop
\* iteration (named by its stage, 0..3), and the one after completion.
InitialPhase == 0 - 1
FinalPhase == NumLoopStages

VARIABLES
  task_statuses,       \* dict task_id -> record
  active_connections,  \* manager.active_connections: dict task_id -> list
  runner,              \* per task id: position and locals of the runner
  handler,             \* per WebSocket: position and locals of websocket_status
  chan,                \* per WebSocket: "open" or "closed" (sends raise)
  received,            \* per WebSocket: the texts the client has received
  http_response,       \* the last answer of get_status
  disconnect_calls,    \* the number of direct calls of manager.disconnect so far
  bcast,               \* history: per task id, the broadcast in progress
  lastB,               \* history: per task id, the last finished broadcast
  atCompletion,        \* history: per task id, subscribers listed at completion
  issued               \* history: per task id, the texts given to broadcast_to_task

vars == << task_statuses, active_connections, runner, handler, chan, received,
           http_response, bcast, lastB, atCompletion, issued, disconnect_calls >>

-----------------------------------------------------------------------------
\* Python list and dict helpers.

Contains(list, x) == \E i \in 1..Len(list) : list[i] = x

IndexOf(list, x) == CHOOSE i \in 1..Len(list) :
                      /\ list[i] = x
                      /\ \A j \in 1..(i - 1) : list[j] # x

\* list.remove(x) for x in list: drops the first occurrence.
ListRemove(list, x) ==
  LET k == IndexOf(list, x)
  IN  [i \in 1..(Len(list) - 1) |-> IF i < k THEN list[i] ELSE list[i + 1]]

DictSet(d, k, v) == [x \in (DOMAIN d) \cup {k} |-> IF x = k THEN v ELSE d[x]]

DictDel(d, k) == [x \in (DOMAIN d) \ {k} |-> d[x]]

SeqToSet(s) == {s[i] : i \in 1..Len(s)}

Count(s, x) == Cardinality({i \in 1..Len(s) : s[i] = x})

-----------------------------------------------------------------------------
\* The task record and its updates.

InitialRecord(t) ==
  [ task_id              |-> t,
    stage                |-> 0,
    stage_name           |-> PROCESSING_STAGES[1],
    progress             |-> 0,
    progress_float       |-> FALSE,
    status               |-> "Processing",
    start_time           |-> "now",
    estimated_completion |-> "now+120",
    baggage_details      |-> "bag",
    completion_time      |-> "unset" ]

\* A variant of the stage update that counts the progress down.
StageUpdateCountdown(rec, stage) ==
  [rec EXCEPT !.stage = stage,
              !.stage_name = PROCESSING_STAGES[stage + 1],
              !.progress = ((NumLoopStages - stage) * 100) \div NumLoopStages,
              !.progress_float = TRUE]

\* Lines 95-97: progress = (stage / 4) * 100 is a float.
StageUpdate(rec, stage) ==
  [rec EXCEPT !.stage = stage,
              !.stage_name = PROCESSING_STAGES[stage + 1],
              !.progress = (stage * 100) \div NumLoopStages,
              !.progress_float = TRUE]

\* A variant of the completion that stamps start_time, not completion_time.
FinalUpdateStampsStart(rec) ==
  [rec EXCEPT !.stage = 4,
              !.stage_name = PROCESSING_STAGES[5],
              !.progress = 100,
              !.progress_float = FALSE,
              !.status = "Completed",
              !.start_time = "completion",
              !.completion_time = "now"]

\* A variant of the completion that leaves the status as it was.
FinalUpdateKeepsStatus(rec) ==
  [rec EXCEPT !.stage = 4,
              !.stage_name = PROCESSING_STAGES[5],
              !.progress = 100,
              !.progress_float = FALSE,
              !.completion_time = "now"]

\* Lines 106-110.
FinalUpdate(rec) ==
  [rec EXCEPT !.stage = 4,
              !.stage_name = PROCESSING_STAGES[5],
              !.progress = 100,
              !.progress_float = FALSE,
              !.status = "Completed",
              !.completion_time = "now"]

\* json.dumps(message): the text sent.  An int prints as 0, a float as 0.0;
\* the key completion_time is present only once it is set.
json_dumps(rec) ==
  [ task_id              |-> rec.task_id,
    stage                |-> rec.stage,
    stage_name           |-> rec.stage_name,
    progress             |-> << rec.progress,
                                IF rec.progress_float THEN "float" ELSE "int" >>,
    status               |-> rec.status,
    start_time           |-> rec.start_time,
    estimated_completion |-> rec.estimated_completion,
    baggage_details      |-> rec.baggage_details,
    has_completion_time  |-> rec.completion_time # "unset" ]

-----------------------------------------------------------------------------
\* ConnectionManager

\* connect, lines 32-34.
connect_register(ac, w, t) ==
  IF t \in DOMAIN ac THEN DictSet(ac, t, Append(ac[t], w))
                     ELSE DictSet(ac, t, << w >>)

\* A variant of the attach snapshot that skips finished tasks.
connect_snapshot_processing_only(ts, t) ==
  IF t \in DOMAIN ts /\ ts[t].status = "Processing"
    THEN << json_dumps(ts[t]) >> ELSE << >>

\* connect, lines 37-38: the text of the snapshot to send, if any.
connect_snapshot(ts, t) ==
  IF t \in DOMAIN ts THEN << json_dumps(ts[t]) >> ELSE << >>

\* disconnect, lines 41-44.  err is the exception raised, if any.
disconnect(ac, w, t) ==
  IF t \notin DOMAIN ac
    THEN [ac |-> ac, err |-> "none", deleted |-> FALSE]
    ELSE IF ~Contains(ac[t], w)
      THEN [ac |-> ac, err |-> "ValueError", deleted |-> FALSE]
      ELSE LET l == ListRemove(ac[t], w)
           IN  IF l = << >>
                 THEN [ac |-> DictDel(ac, t), err |-> "none", deleted |-> TRUE]
                 ELSE [ac |-> DictSet(ac, t, l), err |-> "none",
                       deleted |-> FALSE]

\* broadcast_to_task, line 57: the except branch.
broadcast_remove(ac, c, t) ==
  IF t \notin DOMAIN ac
    THEN [ac |-> ac, err |-> "KeyError"]
    ELSE IF ~Contains(ac[t], c)
      THEN [ac |-> ac, err |-> "ValueError"]
      ELSE [ac |-> DictSet(ac, t, ListRemove(ac[t], c)), err |-> "none"]

\* A variant of get_status that answers an absent id with a fresh record.
get_status_no_404(ts, t) ==
  IF t \notin DOMAIN ts
    THEN [task |-> t, code |-> 200, body |-> << InitialRecord(t) >>]
    ELSE [task |-> t, code |-> 200, body |-> << ts[t] >>]

\* get_status, lines 155-158.
get_status(ts, t) ==
  IF t \notin DOMAIN ts
    THEN [task |-> t, code |-> 404, body |-> << >>]
    ELSE [task |-> t, code |-> 200, body |-> << ts[t] >>]

-----------------------------------------------------------------------------
\* The runner simulate_baggage_processing(task_id), lines 61-118.
\*   pc: "idle"      no job with this id yet
\*       "created"   create_task done (line 126), the coroutine has not run yet
\*       "sending"   inside broadcast_to_task, awaiting send_text (line 54)
\*       "sleeping"  awaiting asyncio.sleep(stage_times[stage]) (line 103)
\*       "retention" awaiting asyncio.sleep(300) (line 116)
\*       "done"      the coroutine returned
\*       "crashed"   an exception escaped the coroutine (err names it)
\*   phase: the broadcast being made or last made
\*   idx: the position of the list iterator of line 52 (items consumed)
\*   detached: the list being iterated is no longer the one in the dict
\*   cur, msg: the connection and text of the send in flight

RunnerIdle ==
  [pc |-> "idle", phase |-> InitialPhase, idx |-> 0, detached |-> FALSE,
   cur |-> 0, msg |-> << >>, err |-> "none"]

RunnerSending(ph, idx, c, text) ==
  [pc |-> "sending", phase |-> ph, idx |-> idx, detached |-> FALSE,
   cur |-> c, msg |-> << text >>, err |-> "none"]

RunnerResting(ph) ==
  [pc |-> IF ph = FinalPhase THEN "retention" ELSE "sleeping",
   phase |-> ph, idx |-> 0, detached |-> FALSE,
   cur |-> 0, msg |-> << >>, err |-> "none"]

HasSubscribers(ac, t) == t \in DOMAIN ac /\ Len(ac[t]) > 0

\* History of one broadcast: who was listed at its start and has stayed
\* listed (but for removal by the broadcast itself), who was delivered to,
\* whose send failed, whom the broadcast removed from the list.
BroadcastLog(ph, list) ==
  [phase |-> ph, stable |-> SeqToSet(list), delivered |-> << >>,
   failed |-> {}, removed |-> {}]

\* A variant of broadcast_to_task without the guard of line 51: an id with
\* no entry raises KeyError.
EnterBroadcastUnguarded(ts, ac, t, ph, last) ==
  IF HasSubscribers(ac, t)
    THEN [ts |-> ts,
          run |-> RunnerSending(ph, 1, ac[t][1], json_dumps(ts[t])),
          bcast |-> BroadcastLog(ph, ac[t]),
          lastB |-> last,
          sent |-> << json_dumps(ts[t]) >>]
    ELSE [ts |-> ts,
          run |-> IF t \in DOMAIN ac
                    THEN RunnerResting(ph)
                    ELSE [RunnerResting(ph) EXCEPT !.pc = "crashed",
                                                   !.err = "KeyError"],
          bcast |-> BroadcastLog(ph, << >>),
          lastB |-> << BroadcastLog(ph, << >>) >>,
          sent |-> << json_dumps(ts[t]) >>]

\* broadcast_to_task entered from the loop or after completion (lines 100,
\* 113): either the first send_text is awaited, or there is nobody to send
\* to and the runner goes on to its sleep.
EnterBroadcast(ts, ac, t, ph, last) ==
  IF HasSubscribers(ac, t)
    THEN [ts |-> ts,
          run |-> RunnerSending(ph, 1, ac[t][1], json_dumps(ts[t])),
          bcast |-> BroadcastLog(ph, ac[t]),
          lastB |-> last,
          sent |-> << json_dumps(ts[t]) >>]
    ELSE [ts |-> ts,
          run |-> RunnerResting(ph),
          bcast |-> BroadcastLog(ph, << >>),
          lastB |-> << BroadcastLog(ph, << >>) >>,
          sent |-> << json_dumps(ts[t]) >>]

\* What follows the return of broadcast ph: after the initial broadcast
\* (line 82) the first loop iteration updates the record and broadcasts
\* again without an await in between; after the others the runner sleeps.
AfterBroadcast(ts, ac, t, ph, log) ==
  IF ph = InitialPhase
    THEN EnterBroadcast([ts EXCEPT ![t] = StageUpdate(@, 0)], ac, t, 0,
                        << log >>)
    ELSE [ts |-> ts, run |-> RunnerResting(ph), bcast |-> log,
          lastB |-> << log >>, sent |-> << >>]

\* Lines 64-82: the record is created and the initial broadcast entered.
EnterInitialBroadcast(ts, ac, t) ==
  LET ts1 == DictSet(ts, t, InitialRecord(t))
  IN  IF HasSubscribers(ac, t)
        THEN [ts |-> ts1,
              run |-> RunnerSending(InitialPhase, 1, ac[t][1],
                                    json_dumps(ts1[t])),
              bcast |-> BroadcastLog(InitialPhase, ac[t]),
              lastB |-> << >>,
              sent |-> << json_dumps(ts1[t]) >>]
        ELSE [AfterBroadcast(ts1, ac, t, InitialPhase,
                             BroadcastLog(InitialPhase, << >>))
                EXCEPT !.sent = << json_dumps(ts1[t]) >> \o @]

\* A variant of the next update that uses the loop index of the stage that
\* just ended.
NextUpdateStuck(rec, ph) ==
  IF ph + 1 < NumLoopStages THEN StageUpdate(rec, ph)
                            ELSE FinalUpdate(rec)

\* A variant of the next update that advances two stages at a time.
NextUpdateSkip(rec, ph) ==
  IF ph + 2 < NumLoopStages THEN StageUpdate(rec, ph + 2)
                            ELSE FinalUpdate(rec)

\* The record update that follows the sleep of loop stage ph (0..3):
\* the next loop iteration (lines 95-97) or the completion (lines 106-110).
NextUpdate(rec, ph) ==
  IF ph + 1 < NumLoopStages THEN StageUpdate(rec, ph + 1)
                            ELSE FinalUpdate(rec)

\* start_processing, lines 121-133: a fresh id, the runner is scheduled.
start_processing(t) ==
  /\ t \in JobIds
  /\ runner[t].pc = "idle"
  /\ runner' = [runner EXCEPT ![t].pc = "created"]
  /\ UNCHANGED << task_statuses, active_connections, handler, chan, received,
                  http_response, bcast, lastB, atCompletion, issued, disconnect_calls >>

\* The first step of the runner: lines 64-82 up to the first await that
\* yields.
RunnerBegin(t) ==
  /\ runner[t].pc = "created"
  /\ LET r == EnterInitialBroadcast(task_statuses, active_connections, t)
     IN  /\ task_statuses' = r.ts
         /\ runner' = [runner EXCEPT ![t] = r.run]
         /\ bcast' = [bcast EXCEPT ![t] = r.bcast]
         /\ lastB' = [lastB EXCEPT ![t] = r.lastB]
         /\ issued' = [issued EXCEPT ![t] = @ \o r.sent]
  /\ UNCHANGED << active_connections, handler, chan, received, http_response,
                  atCompletion, disconnect_calls >>

\* The awaited send_text of line 54 finishes: delivered, or it raised and
\* line 57 runs; then the for loop of line 52 takes its next item.
BroadcastSendDone(t) ==
  /\ runner[t].pc = "sending"
  /\ LET r    == runner[t]
         c    == r.cur
         ok   == chan[c] = "open"
         rem  == IF ok THEN [ac |-> active_connections, err |-> "none"]
                       ELSE broadcast_remove(active_connections, c, t)
         log  == IF ok
                   THEN [bcast[t] EXCEPT !.delivered = Append(@, c)]
                   ELSE [bcast[t] EXCEPT
                           !.failed = @ \cup {c},
                           !.removed = IF rem.err = "none" THEN @ \cup {c}
                                                          ELSE @]
         list == IF r.detached THEN << >> ELSE rem.ac[t]
     IN  /\ received' = IF ok THEN [received EXCEPT ![c] = Append(@, r.msg[1])]
                              ELSE received
         /\ active_connections' = rem.ac
         /\ IF rem.err # "none"
              THEN /\ runner' = [runner EXCEPT ![t].pc = "crashed",
                                               ![t].err = rem.err]
                   /\ bcast' = [bcast EXCEPT ![t] = log]
                   /\ UNCHANGED << task_statuses, lastB, issued >>
              ELSE IF r.idx < Len(list)
                THEN /\ runner' = [runner EXCEPT
                                     ![t].idx = r.idx + 1,
                                     ![t].cur = list[r.idx + 1],
                                     ![t].msg = << json_dumps(task_statuses[t]) >>]
                     /\ bcast' = [bcast EXCEPT ![t] = log]
                     /\ UNCHANGED << task_statuses, lastB, issued >>
                ELSE LET a == AfterBroadcast(task_statuses, rem.ac, t,
                                             r.phase, log)
                     IN  /\ task_statuses' = a.ts
                         /\ runner' = [runner EXCEPT ![t] = a.run]
                         /\ bcast' = [bcast EXCEPT ![t] = a.bcast]
                         /\ lastB' = [lastB EXCEPT ![t] = a.lastB]
                         /\ issued' = [issued EXCEPT ![t] = @ \o a.sent]
  /\ UNCHANGED << handler, chan, http_response, atCompletion,
                  disconnect_calls >>

\* asyncio.sleep of line 103 returns: next loop iteration, or completion.
StageSleepDone(t) ==
  /\ runner[t].pc = "sleeping"
  /\ LET ph  == runner[t].phase
         ts1 == [task_statuses EXCEPT ![t] = NextUpdate(@, ph)]
         r   == EnterBroadcast(ts1, active_connections, t, ph + 1, lastB[t])
     IN  /\ task_statuses' = r.ts
         /\ runner' = [runner EXCEPT ![t] = r.run]
         /\ bcast' = [bcast EXCEPT ![t] = r.bcast]
         /\ lastB' = [lastB EXCEPT ![t] = r.lastB]
         /\ issued' = [issued EXCEPT ![t] = @ \o r.sent]
         /\ atCompletion' =
              IF ph + 1 = FinalPhase
                THEN [atCompletion EXCEPT ![t] =
                        IF t \in DOMAIN active_connections
                          THEN SeqToSet(active_connections[t]) ELSE {}]
                ELSE atCompletion
  /\ UNCHANGED << active_connections, handler, chan, received, http_response,
                  disconnect_calls >>

\* asyncio.sleep(300) returns, lines 117-118.
RetentionDone(t) ==
  /\ runner[t].pc = "retention"
  /\ task_statuses' = IF t \in DOMAIN task_statuses
                        THEN DictDel(task_statuses, t) ELSE task_statuses
  /\ runner' = [runner EXCEPT ![t].pc = "done"]
  /\ UNCHANGED << active_connections, handler, chan, received, http_response,
                  bcast, lastB, atCompletion, issued, disconnect_calls >>

-----------------------------------------------------------------------------
\* The handler websocket_status(websocket, task_id), lines 136-145.
\*   pc: "idle"       the WebSocket has not been opened
\*       "accepting"  awaiting websocket.accept() (line 31)
\*       "snapshot"   registered, awaiting send_personal_message (line 38)
\*       "connected"  in the sleep loop of lines 141-143, for ever: the try
\*                    body awaits only asyncio.sleep, which never raises
\*                    WebSocketDisconnect, so line 145 is never reached
\*       "failed"     an exception escaped the handler (err names it)
\*   msg: the snapshot text handed to send_text on attach, if any
\*   attach_rec: history, the record found at registration, if any

HandlerIdle ==
  [pc |-> "idle", task |-> 0, msg |-> << >>, attach_rec |-> << >>,
   err |-> "none"]

\* A client opens /ws/status/{task_id}.
websocket_status(w, t) ==
  /\ handler[w].pc = "idle"
  /\ \A v \in 1..(w - 1) : handler[v].pc # "idle"
  /\ handler' = [handler EXCEPT ![w].pc = "accepting", ![w].task = t]
  /\ UNCHANGED << task_statuses, active_connections, runner, chan, received,
                  http_response, bcast, lastB, atCompletion, issued, disconnect_calls >>

\* accept returns: lines 32-38 up to the await of the snapshot send.
ConnectAccepted(w) ==
  /\ handler[w].pc = "accepting"
  /\ LET t == handler[w].task
     IN  IF chan[w] = "closed"
           THEN /\ handler' = [handler EXCEPT ![w].pc = "failed",
                                              ![w].err = "AcceptError"]
                /\ UNCHANGED active_connections
           ELSE LET snap == connect_snapshot(task_statuses, t)
                IN  /\ active_connections' =
                         connect_register(active_connections, w, t)
                    /\ handler' = [handler EXCEPT
                         ![w].pc = IF snap = << >> THEN "connected"
                                                   ELSE "snapshot",
                         ![w].msg = snap,
                         ![w].attach_rec =
                            IF t \in DOMAIN task_statuses
                              THEN << task_statuses[t] >> ELSE << >>]
  /\ UNCHANGED << task_statuses, runner, chan, received, http_response,
                  bcast, lastB, atCompletion, issued, disconnect_calls >>

\* The snapshot send of line 38 finishes.  A failure escapes connect and
\* websocket_status (line 138 is outside the try).
SnapshotSendDone(w) ==
  /\ handler[w].pc = "snapshot"
  /\ IF chan[w] = "open"
       THEN /\ received' = [received EXCEPT ![w] = Append(@, handler[w].msg[1])]
            /\ handler' = [handler EXCEPT ![w].pc = "connected"]
       ELSE /\ handler' = [handler EXCEPT ![w].pc = "failed",
                                          ![w].err = "SendError"]
            /\ UNCHANGED received
  /\ UNCHANGED << task_statuses, active_connections, runner, chan,
                  http_response, bcast, lastB, atCompletion, issued, disconnect_calls >>

\* manager.disconnect(websocket, task_id) called directly, at any point
\* between two awaits (lines 40-44).  The program itself has no reachable
\* call of it; this step is part of ManagerSpec only, which checks the
\* ConnectionManager under any caller of its methods.  The call is made
\* with any WebSocket and any id, whatever the state of the socket's
\* handler, up to MaxDisconnectCalls times in a run.  What the call raises
\* goes to its caller; it is disconnect(active_connections, w, t).err.
DisconnectCall(w, t) ==
  LET d == disconnect(active_connections, w, t)
  IN  /\ disconnect_calls < MaxDisconnectCalls
      /\ disconnect_calls' = disconnect_calls + 1
      /\ active_connections' = d.ac
      /\ runner' = IF d.deleted /\ runner[t].pc = "sending"
                     THEN [runner EXCEPT ![t].detached = TRUE]
                     ELSE runner
      /\ bcast' = IF runner[t].pc = "sending" /\ d.ac # active_connections
                    THEN [bcast EXCEPT ![t].stable = @ \ {w}]
                    ELSE bcast
      /\ UNCHANGED << task_statuses, handler, chan, received, http_response,
                      lastB, atCompletion, issued >>

\* The peer goes away or the transport breaks: from now on sends raise.
ChannelClose(w) ==
  /\ handler[w].pc # "idle"
  /\ chan[w] = "open"
  /\ chan' = [chan EXCEPT ![w] = "closed"]
  /\ UNCHANGED << task_statuses, active_connections, runner, handler, received,
                  http_response, bcast, lastB, atCompletion, issued, disconnect_calls >>

\* GET /status/{task_id}.
GetStatus(t) ==
  /\ http_response' = get_status(task_statuses, t)
  /\ UNCHANGED << task_statuses, active_connections, runner, handler, chan,
                  received, bcast, lastB, atCompletion, issued, disconnect_calls >>

-----------------------------------------------------------------------------
EmptyDict == [x \in {} |-> x]

Init ==
  /\ task_statuses = EmptyDict
  /\ active_connections = EmptyDict
  /\ runner = [t \in TaskIds |-> RunnerIdle]
  /\ handler = [w \in Sockets |-> HandlerIdle]
  /\ chan = [w \in Sockets |-> "open"]
  /\ received = [w \in Sockets |-> << >>]
  /\ http_response = [task |-> 0, code |-> 0, body |-> << >>]
  /\ disconnect_calls = 0
  /\ bcast = [t \in TaskIds |-> BroadcastLog(InitialPhase, << >>)]
  /\ lastB = [t \in TaskIds |-> << >>]
  /\ atCompletion = [t \in TaskIds |-> {}]
  /\ issued = [t \in TaskIds |-> << >>]

RunnerStep(t) ==
  \/ RunnerBegin(t)
  \/ BroadcastSendDone(t)
  \/ StageSleepDone(t)
  \/ RetentionDone(t)

Next ==
  \/ \E t \in JobIds : start_processing(t)
  \/ \E t \in JobIds : RunnerBegin(t)
  \/ \E t \in JobIds : BroadcastSendDone(t)
  \/ \E t \in JobIds : StageSleepDone(t)
  \/ \E t \in JobIds : RetentionDone(t)
  \/ \E w \in Sockets, t \in TaskIds : websocket_status(w, t)
  \/ \E w \in Sockets : ConnectAccepted(w)
  \/ \E w \in Sockets : SnapshotSendDone(w)
  \/ \E w \in Sockets : ChannelClose(w)
  \/ \E t \in TaskIds : GetStatus(t)

Spec == Init /\ [][Next]_vars

\* The ConnectionManager under any caller: the program, and besides it
\* direct calls of manager.disconnect with any arguments.
ManagerNext ==
  \/ Next
  \/ \E w \in Sockets, t \in TaskIds : DisconnectCall(w, t)

ManagerSpec == Init /\ [][ManagerNext]_vars

-----------------------------------------------------------------------------
\* Properties.

Listed(ac, w, t) == t \in DOMAIN ac /\ Contains(ac[t], w)

IsTerminal(m) == m.status = "Completed" /\ m.progress[1] = 100

ReceivedTerminal(w) == \E i \in 1..Len(received[w]) : IsTerminal(received[w][i])

\* C1: in every finished broadcast, each subscriber that stayed in the list
\* for the whole broadcast and whose own send did not fail was delivered the
\* message exactly once, and the broadcast removed only subscribers whose
\* send failed.
C1_BroadcastReachesAll ==
  \A t \in JobIds :
    lastB[t] # << >> =>
      LET b == lastB[t][1]
      IN  /\ \A w \in b.stable \ b.failed : Count(b.delivered, w) = 1
          /\ b.removed \subseteq b.failed

\* C2: in every state, disconnect called for a subscriber that is not in
\* the id's list raises no error and changes no list.
C2_DisconnectIdempotent ==
  \A w \in Sockets, t \in TaskIds :
    ~Listed(active_connections, w, t)
    => /\ disconnect(active_connections, w, t).err = "none"
       /\ disconnect(active_connections, w, t).ac = active_connections

\* C3: no exception escapes broadcast_to_task into the runner, whatever
\* calls of disconnect and connect fall into its awaits.
C3_BroadcastNeverRaises ==
  \A t \in JobIds : runner[t].err = "none"

\* C4: a started job runs to completion and eviction, whatever subscribers
\* attach, detach or fail to receive: until its runner has returned and the
\* record is gone, the runner always has a next step to take.
C4_RunsToCompletion ==
  \A t \in JobIds :
    runner[t].pc # "idle" =>
      \/ runner[t].pc = "done" /\ t \notin DOMAIN task_statuses
      \/ ENABLED RunnerStep(t)

\* C5: in every step, the stage and the progress of a record do not decrease
\* and a Completed record stays Completed; a record appears only in the first
\* step of its runner, so a task id has one record lifetime.
C5_Monotonic ==
  [][\A t \in TaskIds :
       /\ (t \in DOMAIN task_statuses /\ t \in DOMAIN task_statuses') =>
            /\ task_statuses'[t].stage >= task_statuses[t].stage
            /\ task_statuses'[t].progress >= task_statuses[t].progress
            /\ (task_statuses[t].status = "Completed"
                  => task_statuses'[t].status = "Completed")
       /\ (t \notin DOMAIN task_statuses /\ t \in DOMAIN task_statuses') =>
            /\ runner[t].pc = "created"
            /\ task_statuses'[t].status = "Processing"]_vars

C5_Witness ==
  \E t \in JobIds :
    /\ t \in DOMAIN task_statuses
    /\ task_statuses[t].status = "Completed"
    /\ task_statuses[t].stage = 4
    /\ task_statuses[t].progress = 100

\* C6: from the return of start_processing until the first stage delay has
\* elapsed, get_status finds the record with stage 0 and status Processing.
C6_RegisteredOnSubmit ==
  \A t \in JobIds :
    (\/ runner[t].pc = "created"
     \/ runner[t].pc \in {"sending", "sleeping"} /\ runner[t].phase <= 0)
    => LET q == get_status(task_statuses, t)
       IN  /\ q.code = 200
           /\ q.body[1].stage = 0
           /\ q.body[1].status = "Processing"

\* C7: once the final broadcast has returned, every subscriber that was in
\* the list at completion and whose channel accepts sends has received the
\* terminal snapshot.
C7_TerminalDelivered ==
  \A t \in JobIds :
    runner[t].pc \in {"retention", "done"} =>
      \A w \in atCompletion[t] : chan[w] = "open" => ReceivedTerminal(w)

\* C8: every key of active_connections maps to a non-empty list.
C8_NoEmptyLists ==
  \A t \in DOMAIN active_connections : Len(active_connections[t]) > 0

\* C9: a record is absent only before the runner starts or after the
\* retention delay; after the retention delay it is absent and get_status
\* answers 404; while it is Completed, get_status returns it and its
\* eviction is still to come; a record that is removed was Completed.
C9_EvictedAfterRetention ==
  \A t \in JobIds :
    /\ t \notin DOMAIN task_statuses =>
         runner[t].pc \in {"idle", "created", "done"}
    /\ runner[t].pc = "done" => get_status(task_statuses, t).code = 404
    /\ (t \in DOMAIN task_statuses /\ task_statuses[t].status = "Completed") =>
         /\ get_status(task_statuses, t).code = 200
         /\ get_status(task_statuses, t).body[1].status = "Completed"
         /\ ENABLED RetentionDone(t) \/ ENABLED BroadcastSendDone(t)
    /\ (http_response.task = t /\ http_response.code = 200
          /\ http_response.body[1].status = "Completed")
       => runner[t].pc \in {"sending", "retention", "done"}

C9_Witness ==
  \E t \in JobIds :
    /\ runner[t].pc = "done"
    /\ http_response.task = t
    /\ http_response.code = 404

\* C10: a subscriber that attaches while a record exists is registered and
\* is handed the snapshot of that record; when the send has succeeded it has
\* received that snapshot, the terminal one if the record was Completed.
C10_SnapshotOnAttach ==
  \A w \in Sockets :
    handler[w].attach_rec # << >> =>
      LET rec == handler[w].attach_rec[1]
      IN  /\ handler[w].msg = << json_dumps(rec) >>
          /\ (handler[w].pc = "snapshot" /\ chan[w] = "open") =>
               Listed(active_connections, w, handler[w].task)
          /\ handler[w].pc = "connected" =>
               /\ Contains(received[w], json_dumps(rec))
               /\ rec.status = "Completed" => ReceivedTerminal(w)

C10_Witness ==
  \E w \in Sockets :
    /\ handler[w].pc = "connected"
    /\ handler[w].attach_rec # << >>
    /\ handler[w].attach_rec[1].status = "Completed"
    /\ ReceivedTerminal(w)

-----------------------------------------------------------------------------
\* Properties of pruning, ordering and frames.

\* The runner of t has a broadcast still to make.
BroadcastToCome(t) ==
  /\ t \in JobIds
  /\ runner[t].pc \in {"idle", "created", "sending", "sleeping"}

\* C11: a listed subscriber whose channel is closed is on its way out of the
\* list: its attach is still in progress, or a broadcast is still to come
\* that will find the send failing.
C11_DeadSubscriberPruned ==
  \A w \in Sockets :
    (/\ chan[w] = "closed"
     /\ Listed(active_connections, w, handler[w].task))
    => \/ handler[w].pc = "snapshot"
       \/ BroadcastToCome(handler[w].task)

\* C12 as stated: every broadcast of a task carries a stage strictly greater
\* than the broadcast before it.
C12_StrictlyIncreasing ==
  \A t \in JobIds :
    \A i \in 1..(Len(issued[t]) - 1) :
      issued[t][i + 1].stage > issued[t][i].stage

\* C12 as amended: the stages of the broadcasts of a task never decrease;
\* the first two broadcasts both carry stage 0 and from then on every
\* broadcast carries a stage strictly greater than the one before it.
C12_IncreasingAfterInitial ==
  \A t \in JobIds :
    /\ \A i \in 1..(Len(issued[t]) - 1) :
         /\ issued[t][i + 1].stage >= issued[t][i].stage
         /\ i >= 2 => issued[t][i + 1].stage > issued[t][i].stage
    /\ Len(issued[t]) >= 2 =>
         issued[t][1].stage = 0 /\ issued[t][2].stage = 0

C12_Witness ==
  \E t \in JobIds :
    /\ Len(issued[t]) = NumLoopStages + 2
    /\ issued[t][NumLoopStages + 2].stage = 4
    /\ \E w \in Sockets : Len(received[w]) >= 2

\* A subscriber that attached before the record of its task existed, is
\* attached still and has a working channel, seen between two broadcasts.
SteadySubscriber(w) ==
  /\ handler[w].pc = "connected"
  /\ handler[w].attach_rec = << >>
  /\ chan[w] = "open"
  /\ handler[w].task \in JobIds
  /\ runner[handler[w].task].pc \in {"sleeping", "retention"}

\* C13: a subscriber that stays attached with a working channel has
\* received exactly one message for each change of the record: every
\* snapshot the runner has broadcast, once each and in order.  (The record
\* as created and the record after the update of stage 0 count as two
\* snapshots: their texts differ in the progress, 0 and 0.0.)
C13_OneMessagePerChange ==
  \A w \in Sockets :
    SteadySubscriber(w) => received[w] = issued[handler[w].task]

\* A step of a handler or of the environment, not of a runner.
NonRunnerStep ==
  \/ \E w \in Sockets, t \in TaskIds : websocket_status(w, t)
  \/ \E w \in Sockets : ConnectAccepted(w)
  \/ \E w \in Sockets : SnapshotSendDone(w)
  \/ \E w \in Sockets, t \in TaskIds : DisconnectCall(w, t)
  \/ \E w \in Sockets : ChannelClose(w)
  \/ \E t \in TaskIds : GetStatus(t)

\* C14: connect, disconnect, get_status and a broadcast in progress leave
\* task_statuses unchanged; a record changes only in a step of its own
\* runner, and its task_id, start_time, estimated_completion and
\* baggage_details never change.
C14_OnlyRunnerMutates ==
  [][/\ NonRunnerStep => task_statuses' = task_statuses
     /\ \A t \in JobIds :
          (BroadcastSendDone(t) /\ runner'[t].phase = runner[t].phase)
            => task_statuses' = task_statuses
     /\ \A t \in TaskIds :
          /\ (t \in DOMAIN task_statuses /\ t \in DOMAIN task_statuses') =>
               /\ task_statuses'[t].task_id = task_statuses[t].task_id
               /\ task_statuses'[t].start_time = task_statuses[t].start_time
               /\ task_statuses'[t].estimated_completion
                    = task_statuses[t].estimated_completion
               /\ task_statuses'[t].baggage_details
                    = task_statuses[t].baggage_details
          /\ (/\ t \in DOMAIN task_statuses
              /\ t \in DOMAIN task_statuses'
              /\ task_statuses'[t] # task_statuses[t])
             => t \in JobIds /\ RunnerStep(t)]_vars

C14_Witness ==
  \E t \in JobIds :
    /\ t \in DOMAIN task_statuses
    /\ task_statuses[t].status = "Completed"
    /\ http_response.code = 200
    /\ http_response.body[1].status = "Completed"
    /\ \E w \in Sockets :
         /\ handler[w].pc = "connected"
         /\ chan[w] = "open"
         /\ ~Listed(active_connections, w, handler[w].task)
    /\ \E w \in Sockets : ReceivedTerminal(w)

\* C15: a subscriber that attached to an id without a record was registered
\* without a snapshot, and once the next broadcast for the id (the initial
\* one) has been made, a subscriber that is attached with a working channel
\* has received it as its first message.
C15_AttachWithoutRecord ==
  \A w \in Sockets :
    (handler[w].pc \in {"snapshot", "connected"}
       /\ handler[w].attach_rec = << >>)
    => /\ handler[w].msg = << >>
       /\ handler[w].pc # "snapshot"
       /\ LET t == handler[w].task
          IN  (/\ handler[w].pc = "connected"
               /\ chan[w] = "open"
               /\ t \in JobIds
               /\ runner[t].pc \in {"sending", "sleeping", "retention"}
               /\ runner[t].phase >= 0)
              => /\ received[w] # << >>
                 /\ received[w][1] = json_dumps(InitialRecord(t))

\* C16: a broadcast for an id with no entry or with an empty list returns
\* at once: nothing is sent, nothing is raised, the subscriber map is
\* unchanged and the record is what the runner itself has just written.
C16_EmptyBroadcastNoOp ==
  [][\A t \in JobIds :
       (/\ runner[t].pc \in {"created", "sleeping"}
        /\ runner'[t] # runner[t]
        /\ ~HasSubscribers(active_connections, t))
       => /\ active_connections' = active_connections
          /\ received' = received
          /\ runner'[t].err = "none"
          /\ runner'[t].pc \in {"sleeping", "retention"}
          /\ task_statuses'[t] =
               IF runner[t].pc = "created"
                 THEN StageUpdate(InitialRecord(t), 0)
                 ELSE NextUpdate(task_statuses[t], runner[t].phase)
          /\ \A u \in TaskIds \ {t} :
               /\ u \in DOMAIN task_statuses' <=> u \in DOMAIN task_statuses
               /\ u \in DOMAIN task_statuses =>
                    task_statuses'[u] = task_statuses[u]]_vars

C16_Witness ==
  \E t \in JobIds :
    /\ runner[t].pc = "sleeping"
    /\ runner[t].phase >= 1
    /\ t \in DOMAIN active_connections
    /\ Len(active_connections[t]) = 0
    /\ lastB[t] # << >>
    /\ lastB[t][1].phase = runner[t].phase
    /\ lastB[t][1].stable = {}
    /\ lastB[t][1].delivered = << >>

\* C17: the stage of a record starts at 0 and changes only by +1; it
\* changes only when the delay that follows the broadcast of the stage
\* before has elapsed, and the new stage is broadcast in the same step;
\* after stage 4 the record changes no more and is only evicted, and only a
\* record at stage 4 is evicted.
C17_StagesInOrder ==
  [][\A t \in JobIds :
       /\ (t \notin DOMAIN task_statuses /\ t \in DOMAIN task_statuses') =>
            task_statuses'[t].stage = 0
       /\ (t \in DOMAIN task_statuses /\ t \in DOMAIN task_statuses') =>
            /\ task_statuses'[t].stage \in
                 {task_statuses[t].stage, task_statuses[t].stage + 1}
            /\ task_statuses'[t].stage = task_statuses[t].stage + 1 =>
                 /\ runner[t].pc = "sleeping"
                 /\ runner[t].phase = task_statuses[t].stage
                 /\ issued[t][Len(issued[t])].stage = task_statuses[t].stage
                 /\ Len(issued'[t]) = Len(issued[t]) + 1
                 /\ issued'[t][Len(issued'[t])].stage = task_statuses'[t].stage
            /\ task_statuses[t].stage = 4 =>
                 task_statuses'[t] = task_statuses[t]
       /\ (t \in DOMAIN task_statuses /\ t \notin DOMAIN task_statuses') =>
            /\ task_statuses[t].stage = 4
            /\ runner[t].pc = "retention"]_vars

C17_Witness ==
  \E t \in JobIds :
    /\ runner[t].pc = "done"
    /\ t \notin DOMAIN task_statuses
    /\ Len(issued[t]) = NumLoopStages + 2
    /\ \A i \in 2..(NumLoopStages + 2) : issued[t][i].stage = i - 2

\* C18: in every record the stage is in 0..4, the stage name is the one of
\* the stage, progress = stage / 4 * 100, and Completed, stage 4, progress
\* 100 and a set completion_time go together.
C18_DerivedFieldsAgree ==
  \A t \in DOMAIN task_statuses :
    LET r == task_statuses[t]
    IN  /\ r.stage \in 0..4
        /\ r.stage_name = PROCESSING_STAGES[r.stage + 1]
        /\ r.progress * 4 = r.stage * 100
        /\ r.status \in {"Processing", "Completed"}
        /\ r.status = "Completed" <=> r.stage = 4
        /\ r.stage = 4 <=> r.progress = 100
        /\ r.progress = 100 <=> r.completion_time # "unset"

C18_Witness ==
  \E t \in DOMAIN task_statuses :
    /\ task_statuses[t].stage = 3
    /\ task_statuses[t].progress = 75
    /\ task_statuses[t].status = "Processing"

=============================================================================
